---- MODULE Spec2Model ----
(***************************************************************************)
(* Order pipeline of the multi-tenant shop backend: create_order,          *)
(* cancel_order, update_order_status, payment_webhook (app/api/routes/     *)
(* orders.py), the scheduled cancel_unpaid_orders task                     *)
(* (app/tasks/order_tasks.py), and the task queue they publish to.         *)
(*                                                                         *)
(* Every request owns one SQLAlchemy session (get_db).  A session keeps    *)
(* the rows it has loaded in its identity map and writes the changed       *)
(* columns back with absolute values at commit, so a request is modelled   *)
(* as a sequence of steps, cut where it reads or writes committed rows,  *)
(* and the steps of different requests interleave.  The committed rows     *)
(* are the variables products, orders, order_items and cart; what a        *)
(* session has loaded or changed but not committed lives in the request    *)
(* record.  The broker is the production one (task_always_eager = False).  *)
(***************************************************************************)
EXTENDS Integers, Sequences, FiniteSets, TLC

VARIABLES products, orders, order_items, cart, order_seq, queue, reqs, cron,
          ops, response, cache, config

vars == <<products, orders, order_items, cart, order_seq, queue, reqs, cron,
          ops, response, cache, config>>

db == <<products, orders, order_items, cart>>

(* ------------------------------ bounds -------------------------------- *)

MaxOrders == 2

MaxTicks == 1

MaxQueue == 2

MaxOps == 3

(* ------------------------- program constants -------------------------- *)

UnpaidCutoffHours == 24

(* --------------------------- input domains ---------------------------- *)

ProductIds == {1, 2}

Slots == {1, 2}

OrderNumbers == {1, 2}

OrderStatus ==
  {"pending", "confirmed", "processing", "shipped", "delivered", "cancelled",
   "refunded"}

User ==
  [u \in 1..5 |->
     CASE u = 1 -> [role |-> "customer", tenant_id |-> 1]
       [] u = 2 -> [role |-> "tenant_owner", tenant_id |-> 1]
       [] u = 3 -> [role |-> "tenant_owner", tenant_id |-> 2]
       [] u = 4 -> [role |-> "customer", tenant_id |-> 0]
       [] u = 5 -> [role |-> "tenant_staff", tenant_id |-> 1]]

Line(p, q) == [product_id |-> p, quantity |-> q]

\* The requests tried: product 1 is inventory-tracked with one unit in stock,
\* product 2 is not tracked, product 3 does not exist.
OrderLines ==
  { <<Line(1, 1)>>, <<Line(1, 2)>>, <<Line(2, 2)>>,
    <<Line(1, 1), Line(1, 1)>>, <<Line(2, 1), Line(1, 2)>>,
    <<Line(3, 1), Line(1, 2)>> }

CartUsers == {1, 2}

(* ------------------------------- state -------------------------------- *)

Product(track, stock) ==
  [track_inventory |-> track, stock_quantity |-> stock, sales_count |-> 0]

InitProducts == (1 :> Product(TRUE, 1)) @@ (2 :> Product(FALSE, 0))

\* The Celery settings the delivery of tasks depends on, in the base
\* class and in the two classes get_config chooses between.
CeleryConfig ==
  [task_acks_late |-> TRUE,
   task_reject_on_worker_lost |-> TRUE,
   task_retry_backoff_max |-> 600,
   task_max_retries |-> 3,
   task_always_eager |-> FALSE,
   task_eager_propagates |-> TRUE]

DevelopmentConfig == [CeleryConfig EXCEPT !.task_always_eager = TRUE]

ProductionConfig ==
  [CeleryConfig EXCEPT !.task_max_retries = 5,
                       !.task_retry_backoff_max = 3600]

Idle ==
  [op |-> "", pc |-> "idle", user |-> 0, oid |-> 0, lines |-> <<>>,
   sess |-> <<>>, num |-> 0, cartDel |-> {},
   seen |-> "", seenPay |-> "", arg |-> "", result |-> ""]

CronIdle == [pc |-> "idle", todo |-> <<>>, marked |-> {}]

\* What the step just taken returned or printed: the response of a request
\* (or the outcome of a task run) that ended in it, and whether a publish
\* to the broker failed in it.
NoResponse == [op |-> "", result |-> "", publish_failed |-> FALSE]

Init ==
  /\ products = InitProducts
  /\ orders = <<>>
  /\ order_items = <<>>
  /\ cart = [u \in DOMAIN User |-> IF u \in CartUsers THEN {1} ELSE {}]
  /\ order_seq = 0
  /\ queue = <<>>
  /\ reqs = [s \in Slots |-> Idle]
  /\ cron = CronIdle
  /\ ops = 0
  /\ response = NoResponse
  /\ cache = <<>>
  /\ config = ProductionConfig

(* ----------------------------- helpers -------------------------------- *)

\* A new request is served by the first free slot.
Free(s) ==
  /\ reqs[s].pc = "idle"
  /\ \A t \in Slots : t < s => reqs[t].pc # "idle"

\* The end of a request: the session is closed (get_db), so whatever was
\* not committed is rolled back and only the outcome remains.
Finish(r, result) ==
  [Idle EXCEPT !.op = r.op, !.pc = "done", !.result = result]

\* The step of slot s that leaves the request in state r; failed tells
\* whether a publish failed in it.  A finished request frees the slot.
Advance(s, r, failed) ==
  /\ reqs' = [reqs EXCEPT ![s] = IF r.pc = "done" THEN Idle ELSE r]
  /\ response' = [op |-> IF r.pc = "done" \/ failed THEN r.op ELSE "",
                  result |-> IF r.pc = "done" THEN r.result ELSE "",
                  publish_failed |-> failed]

\* A request that got past its checks counts against the bound on the
\* length of the histories explored.
Count(r) == ops' = IF r.pc = "done" THEN ops ELSE ops + 1

Job(task, oid) == [task |-> task, order_id |-> oid]

\* task.delay(...) for each job of jobs in turn: a job is on the queue when
\* the broker is reachable; the first publish that fails raises, and the
\* jobs after it are not published.  published is the number that got out.
Delay(jobs, published) ==
  /\ published \in 0..Len(jobs)
  /\ Len(queue) + published <= MaxQueue
  /\ queue' = queue \o SubSeq(jobs, 1, published)

\* redis_service.delete of the key product:{p}.
RedisDelete(p) == [q \in DOMAIN cache \ {p} |-> cache[q]]

\* The UPDATE statements a flush emits for the products a session changed:
\* only the changed columns, with the values computed in the session.
FlushProducts(sess, dirty) ==
  [p \in DOMAIN products |->
     IF p \in dirty
       THEN [products[p] EXCEPT
               !.stock_quantity =
                  IF sess[p].track_inventory THEN sess[p].stock_quantity ELSE @,
               !.sales_count = sess[p].sales_count]
       ELSE products[p]]

\* The UPDATE a flush emits for an order: the columns whose session value
\* differs from the loaded one.
FlushOrder(order, seen, seenPay, status, payment_status) ==
  [order EXCEPT
     !.status = IF status # seen THEN status ELSE @,
     !.payment_status = IF payment_status # seenPay THEN payment_status ELSE @]

LineProducts(lines) == { lines[i].product_id : i \in DOMAIN lines }

(* ---------------------------- create_order ---------------------------- *)

\* A check that only asks whether any stock is left.
InsufficientStock_AnyLeft(product, quantity) ==
  product.track_inventory /\ product.stock_quantity <= 0

InsufficientStock(product, quantity) ==
  product.track_inventory /\ product.stock_quantity < quantity

\* The first loop over order_data.items: the outcome is decided by the
\* first item whose product is missing or short of stock.
RECURSIVE CheckLines(_)
CheckLines(lines) ==
  IF lines = <<>> THEN "ok"
  ELSE LET item == Head(lines)
       IN IF item.product_id \notin DOMAIN products
            THEN "ProductNotFound"
          ELSE IF InsufficientStock(products[item.product_id], item.quantity)
            THEN "InsufficientStock"
          ELSE CheckLines(Tail(lines))

\* Order ids still to be handed out to requests that have not flushed yet.
PendingCreates ==
  Cardinality({s \in Slots : reqs[s].op = "create_order" /\ reqs[s].pc = "write"})

\* The tenant check and the first loop, which loads the products of the
\* items into the session.
CreateOrder_check(s, u, lines) ==
  LET r == [Idle EXCEPT !.op = "create_order", !.user = u]
      next == IF User[u].tenant_id = 0
                THEN Finish(r, "NoTenant")
              ELSE IF CheckLines(lines) # "ok"
                THEN Finish(r, CheckLines(lines))
              ELSE [r EXCEPT !.lines = lines,
                             !.sess = [p \in LineProducts(lines) |-> products[p]],
                             !.pc = "write"]
  IN /\ Free(s)
     /\ ops < MaxOps
     /\ order_seq + PendingCreates < MaxOrders
     /\ Advance(s, next, FALSE)
     /\ Count(next)
     /\ UNCHANGED <<db, order_seq, queue, cron, cache, config>>

\* The second loop over the collected items: product.stock_quantity and
\* product.sales_count are changed in the session (the query returns the
\* product already loaded in the first loop).
RECURSIVE ApplyLines(_, _)
ApplyLines(sess, lines) ==
  IF lines = <<>> THEN sess
  ELSE LET item == Head(lines)
           p == item.product_id
       IN ApplyLines(
            [sess EXCEPT
               ![p].stock_quantity =
                  IF sess[p].track_inventory THEN @ - item.quantity ELSE @,
               ![p].sales_count = @ + item.quantity],
            Tail(lines))

\* Order numbers inserted by transactions still in flight: the unique index
\* makes a second INSERT of the same number wait for them.
FlushedNumbers(s) ==
  { reqs[t].num : t \in { t2 \in Slots \ {s} :
                            reqs[t2].op = "create_order"
                            /\ reqs[t2].pc = "commit" } }

\* uuid4().hex[:8]: a value drawn at random.  Which value it is does not
\* matter, only whether it was drawn before, so a draw is either a number
\* drawn before or the least number not drawn yet.
UsedNumbers ==
  { orders[o].order_number : o \in DOMAIN orders }
    \cup { reqs[t].num : t \in { t2 \in Slots : reqs[t2].pc = "commit"
                                                 /\ reqs[t2].op = "create_order" } }

DrawnNumbers ==
  { n \in OrderNumbers : \A m \in OrderNumbers : m < n => m \in UsedNumbers }

\* The statements between the first loop and the commit: db.add(new_order)
\* and db.flush() (the INSERT takes an id from the sequence and is checked
\* against the unique index on order_number), the second loop (a product
\* row deleted meanwhile makes product None), and the DELETE of the
\* customer's cart rows that exist at this moment.
CreateOrder_write(s) ==
  LET r == reqs[s]
  IN /\ r.op = "create_order" /\ r.pc = "write"
     /\ \E num \in DrawnNumbers :
          /\ num \notin FlushedNumbers(s)
          /\ Advance(s,
               IF \E o \in DOMAIN orders : orders[o].order_number = num
                 THEN Finish(r, "IntegrityError")
               ELSE IF ~(LineProducts(r.lines) \subseteq DOMAIN products)
                 THEN Finish(r, "AttributeError")
               ELSE [r EXCEPT !.oid = order_seq + 1, !.num = num,
                              !.sess = ApplyLines(r.sess, r.lines),
                              !.cartDel = cart[r.user],
                              !.pc = "commit"],
               FALSE)
     /\ order_seq' = order_seq + 1
     /\ UNCHANGED <<db, queue, cron, ops, cache, config>>

NewOrder(r) ==
  [tenant_id |-> User[r.user].tenant_id, customer_id |-> r.user,
   order_number |-> r.num, status |-> "pending", payment_status |-> "pending",
   age |-> 0]

\* A commit that keeps the order and its items when the product update
\* finds no row.
CreateOrder_commit_Partial(s) ==
  LET r == reqs[s]
  IN /\ r.op = "create_order" /\ r.pc = "commit"
     /\ orders' = (r.oid :> NewOrder(r)) @@ orders
     /\ order_items' = (r.oid :> r.lines) @@ order_items
     /\ IF LineProducts(r.lines) \subseteq DOMAIN products
          THEN /\ products' = FlushProducts(r.sess, LineProducts(r.lines))
               /\ cart' = [cart EXCEPT ![r.user] = @ \ r.cartDel]
               /\ \E published \in 0..1 :
                    /\ Delay(<<Job("process_new_order", r.oid)>>, published)
                    /\ Advance(s, Finish(r, "Created"), published < 1)
          ELSE /\ Advance(s, Finish(r, "StaleDataError"), FALSE)
               /\ UNCHANGED <<products, cart, queue>>
     /\ UNCHANGED <<order_seq, cron, ops, cache, config>>

\* A create_order whose publish is not wrapped in try/except and is made
\* before the commit: a failed publish ends the request with the error.
CreateOrder_commit_Raises(s) ==
  LET r == reqs[s]
  IN /\ r.op = "create_order" /\ r.pc = "commit"
     /\ \E published \in 0..1 :
          /\ Delay(<<Job("process_new_order", r.oid)>>, published)
          /\ IF published = 1 /\ LineProducts(r.lines) \subseteq DOMAIN products
               THEN /\ products' = FlushProducts(r.sess, LineProducts(r.lines))
                    /\ orders' = (r.oid :> NewOrder(r)) @@ orders
                    /\ order_items' = (r.oid :> r.lines) @@ order_items
                    /\ cart' = [cart EXCEPT ![r.user] = @ \ r.cartDel]
                    /\ Advance(s, Finish(r, "Created"), FALSE)
               ELSE /\ Advance(s, Finish(r, "OperationalError"), published < 1)
                    /\ UNCHANGED db
     /\ UNCHANGED <<order_seq, cron, ops, cache, config>>

\* db.commit() writes the order, its items, the product columns and the
\* cart deletion at once; then process_new_order.delay(new_order.id) inside
\* try/except, and the order is returned.
CreateOrder_commit(s) ==
  LET r == reqs[s]
  IN /\ r.op = "create_order" /\ r.pc = "commit"
     /\ IF LineProducts(r.lines) \subseteq DOMAIN products
          THEN /\ products' = FlushProducts(r.sess, LineProducts(r.lines))
               /\ orders' = (r.oid :> NewOrder(r)) @@ orders
               /\ order_items' = (r.oid :> r.lines) @@ order_items
               /\ cart' = [cart EXCEPT ![r.user] = @ \ r.cartDel]
               /\ \E published \in 0..1 :
                    /\ Delay(<<Job("process_new_order", r.oid)>>, published)
                    /\ Advance(s, Finish(r, "Created"), published < 1)
          ELSE /\ Advance(s, Finish(r, "StaleDataError"), FALSE)
               /\ UNCHANGED <<db, queue>>
     /\ UNCHANGED <<order_seq, cron, ops, cache, config>>

(* ---------------------------- cancel_order ---------------------------- *)

\* A cancel_order without the status check.
CancelOrder_read_AnyStatus(s, u, oid) ==
  LET r == [Idle EXCEPT !.op = "cancel_order", !.user = u, !.oid = oid]
      next == IF oid \notin DOMAIN orders \/ orders[oid].customer_id # u
                THEN Finish(r, "NotFound")
              ELSE [r EXCEPT !.seen = orders[oid].status,
                             !.seenPay = orders[oid].payment_status,
                             !.pc = "restore"]
  IN /\ Free(s)
     /\ ops < MaxOps
     /\ Advance(s, next, FALSE)
     /\ Count(next)
     /\ UNCHANGED <<db, order_seq, queue, cron, cache, config>>

\* The order is looked up by id and customer; only a pending one goes on.
CancelOrder_read(s, u, oid) ==
  LET r == [Idle EXCEPT !.op = "cancel_order", !.user = u, !.oid = oid]
      next == IF oid \notin DOMAIN orders \/ orders[oid].customer_id # u
                THEN Finish(r, "NotFound")
              ELSE IF orders[oid].status # "pending"
                THEN Finish(r, "CannotCancel")
              ELSE [r EXCEPT !.seen = orders[oid].status,
                             !.seenPay = orders[oid].payment_status,
                             !.pc = "restore"]
  IN /\ Free(s)
     /\ ops < MaxOps
     /\ Advance(s, next, FALSE)
     /\ Count(next)
     /\ UNCHANGED <<db, order_seq, queue, cron, cache, config>>

Restore(product, quantity) ==
  IF product.track_inventory
    THEN [product EXCEPT !.stock_quantity = @ + quantity,
                         !.sales_count = @ - quantity]
    ELSE product

RECURSIVE RestoreLines(_, _)
RestoreLines(sess, lines) ==
  IF lines = <<>> THEN sess
  ELSE LET item == Head(lines)
           p == item.product_id
       IN RestoreLines([sess EXCEPT ![p] = Restore(@, item.quantity)],
                       Tail(lines))

\* The loop over order.items: the products are read now, and changed in
\* the session.
CancelOrder_restore(s) ==
  LET r == reqs[s]
      lines == order_items[r.oid]
      loaded == [p \in LineProducts(lines) |-> products[p]]
  IN /\ r.op = "cancel_order" /\ r.pc = "restore"
     /\ Advance(s, [r EXCEPT !.lines = lines,
                             !.sess = RestoreLines(loaded, lines),
                             !.pc = "commit"], FALSE)
     /\ UNCHANGED <<db, order_seq, queue, cron, ops, cache, config>>

\* db.commit(), then send_order_cancelled.delay(order.id) inside try/except.
CancelOrder_commit(s) ==
  LET r == reqs[s]
      dirty == { p \in LineProducts(r.lines) : r.sess[p].track_inventory }
  IN /\ r.op = "cancel_order" /\ r.pc = "commit"
     /\ products' = FlushProducts(r.sess, dirty)
     /\ orders' = [orders EXCEPT ![r.oid] =
                     FlushOrder(@, r.seen, r.seenPay, "cancelled", r.seenPay)]
     /\ \E published \in 0..1 :
          /\ Delay(<<Job("send_order_cancelled", r.oid)>>, published)
          /\ Advance(s, Finish(r, "Cancelled"), published < 1)
     /\ UNCHANGED <<order_items, cart, order_seq, cron, ops, cache, config>>

(* ------------------------ update_order_status ------------------------- *)

\* An update_order_status without the check of the order's tenant.
UpdateOrderStatus_read_AnyTenant(s, u, oid, new_status) ==
  LET r == [Idle EXCEPT !.op = "update_order_status", !.user = u, !.oid = oid]
      next == IF User[u].role # "tenant_owner"
                THEN Finish(r, "Forbidden")
              ELSE IF oid \notin DOMAIN orders
                THEN Finish(r, "NotFound")
              ELSE [r EXCEPT !.seen = orders[oid].status,
                             !.seenPay = orders[oid].payment_status,
                             !.arg = new_status,
                             !.pc = "commit"]
  IN /\ Free(s)
     /\ ops < MaxOps
     /\ Advance(s, next, FALSE)
     /\ Count(next)
     /\ UNCHANGED <<db, order_seq, queue, cron, cache, config>>

UpdateOrderStatus_read(s, u, oid, new_status) ==
  LET r == [Idle EXCEPT !.op = "update_order_status", !.user = u, !.oid = oid]
      next == IF User[u].role # "tenant_owner"
                THEN Finish(r, "Forbidden")
              ELSE IF oid \notin DOMAIN orders
                THEN Finish(r, "NotFound")
              ELSE IF orders[oid].tenant_id # User[u].tenant_id
                THEN Finish(r, "Forbidden")
              ELSE [r EXCEPT !.seen = orders[oid].status,
                             !.seenPay = orders[oid].payment_status,
                             !.arg = new_status,
                             !.pc = "commit"]
  IN /\ Free(s)
     /\ ops < MaxOps
     /\ Advance(s, next, FALSE)
     /\ Count(next)
     /\ UNCHANGED <<db, order_seq, queue, cron, cache, config>>

\* db.commit(); the notification that follows imports
\* send_order_status_update, which app.tasks.email_tasks does not define:
\* the import raises inside the try, so nothing is ever published.
UpdateOrderStatus_commit(s) ==
  LET r == reqs[s]
  IN /\ r.op = "update_order_status" /\ r.pc = "commit"
     /\ orders' = [orders EXCEPT ![r.oid] =
                     FlushOrder(@, r.seen, r.seenPay, r.arg,
                                IF r.arg = "confirmed" THEN "paid" ELSE r.seenPay)]
     /\ Advance(s, Finish(r, "Updated"), TRUE)
     /\ UNCHANGED <<products, order_items, cart, order_seq, queue, cron, ops,
                    cache, config>>

(* -------------------------- payment_webhook --------------------------- *)

WebhookStatus == {"success", "failed", "other"}

\* Any other webhook status changes nothing: it commits an empty
\* transaction and answers.
PaymentWebhook_read(s, oid, payment_status) ==
  LET r == [Idle EXCEPT !.op = "payment_webhook", !.oid = oid]
      next == IF oid \notin DOMAIN orders
                THEN Finish(r, "NotFound")
              ELSE IF payment_status \notin {"success", "failed"}
                THEN Finish(r, "Processed")
              ELSE [r EXCEPT !.seen = orders[oid].status,
                             !.seenPay = orders[oid].payment_status,
                             !.arg = payment_status,
                             !.pc = "commit"]
  IN /\ Free(s)
     /\ ops < MaxOps
     /\ Advance(s, next, FALSE)
     /\ Count(next)
     /\ UNCHANGED <<db, order_seq, queue, cron, cache, config>>

\* A payment_webhook that publishes the notifications only when the
\* callback changes the order.
PaymentWebhook_commit_Idempotent(s) ==
  LET r == reqs[s]
      jobs == IF r.arg = "success" /\ (r.seen # "confirmed" \/ r.seenPay # "paid")
                THEN <<Job("send_order_confirmation", r.oid),
                       Job("notify_shop_owner", r.oid)>>
                ELSE <<>>
  IN /\ r.op = "payment_webhook" /\ r.pc = "commit"
     /\ orders' = [orders EXCEPT ![r.oid] =
                     IF r.arg = "success"
                       THEN FlushOrder(@, r.seen, r.seenPay, "confirmed", "paid")
                       ELSE FlushOrder(@, r.seen, r.seenPay, r.seen, "failed")]
     /\ \E published \in 0..Len(jobs) :
          /\ Delay(jobs, published)
          /\ Advance(s, Finish(r, "Processed"), published < Len(jobs))
     /\ UNCHANGED <<products, order_items, cart, order_seq, cron, ops,
                    cache, config>>

\* On success the two notifications are published inside one try/except
\* before db.commit().
PaymentWebhook_commit(s) ==
  LET r == reqs[s]
      jobs == IF r.arg = "success"
                THEN <<Job("send_order_confirmation", r.oid),
                       Job("notify_shop_owner", r.oid)>>
                ELSE <<>>
  IN /\ r.op = "payment_webhook" /\ r.pc = "commit"
     /\ orders' = [orders EXCEPT ![r.oid] =
                     IF r.arg = "success"
                       THEN FlushOrder(@, r.seen, r.seenPay, "confirmed", "paid")
                       ELSE FlushOrder(@, r.seen, r.seenPay, r.seen, "failed")]
     /\ \E published \in 0..Len(jobs) :
          /\ Delay(jobs, published)
          /\ Advance(s, Finish(r, "Processed"), published < Len(jobs))
     /\ UNCHANGED <<products, order_items, cart, order_seq, cron, ops,
                    cache, config>>

(* ------------------------ cancel_unpaid_orders ------------------------ *)

Unpaid(o) ==
  /\ orders[o].status = "pending"
  /\ orders[o].payment_status = "pending"
  /\ orders[o].age > UnpaidCutoffHours

CronResponse(result, failed) ==
  [op |-> "cancel_unpaid_orders", result |-> result, publish_failed |-> failed]

RECURSIVE Ascending(_)
Ascending(S) ==
  IF S = {} THEN <<>>
  ELSE LET m == CHOOSE x \in S : \A y \in S : x <= y
       IN <<m>> \o Ascending(S \ {m})

\* The query for the pending, unpaid orders created before the cutoff.
CancelUnpaidOrders_query ==
  /\ cron.pc = "idle"
  /\ ops < MaxOps
  /\ ops' = ops + 1
  /\ cron' = [pc |-> "loop",
              todo |-> Ascending({o \in DOMAIN orders : Unpaid(o)}),
              marked |-> {}]
  /\ response' = NoResponse
  /\ UNCHANGED <<db, order_seq, queue, reqs, cache, config>>

\* One turn of the loop: the order is marked cancelled in the session and
\* send_order_cancelled.delay(order.id) is called outside any try, so a
\* failed publish ends the task and the session is closed uncommitted.
CancelUnpaidOrders_loop ==
  /\ cron.pc = "loop" /\ cron.todo # <<>>
  /\ \E published \in 0..1 :
       /\ Delay(<<Job("send_order_cancelled", Head(cron.todo))>>, published)
       /\ IF published = 1
            THEN /\ cron' = [cron EXCEPT !.todo = Tail(@),
                                         !.marked = @ \cup {Head(cron.todo)}]
                 /\ response' = NoResponse
            ELSE /\ cron' = CronIdle
                 /\ response' = CronResponse("OperationalError", TRUE)
  /\ UNCHANGED <<db, order_seq, reqs, ops, cache, config>>

CancelUnpaidOrders_commit ==
  /\ cron.pc = "loop" /\ cron.todo = <<>>
  /\ orders' = [o \in DOMAIN orders |->
                  IF o \in cron.marked
                    THEN FlushOrder(orders[o], "pending", "pending",
                                    "cancelled", "pending")
                    ELSE orders[o]]
  /\ cron' = CronIdle
  /\ response' = CronResponse("Done", FALSE)
  /\ UNCHANGED <<products, order_items, cart, order_seq, queue, reqs, ops,
                 cache, config>>

(* ------------------------------ workers ------------------------------- *)

Execute_OnlyConfirmation(job) ==
  IF job.task = "process_new_order"
    THEN <<Job("send_order_confirmation", job.order_id)>>
    ELSE <<>>

\* process_new_order publishes the two notifications, outside any try; the
\* other tasks only read and print.
Execute(job) ==
  IF job.task = "process_new_order"
    THEN <<Job("send_order_confirmation", job.order_id),
           Job("notify_shop_owner", job.order_id)>>
    ELSE <<>>

\* A worker takes the job at the head of the queue and runs it.
Worker ==
  /\ queue # <<>>
  /\ LET job == Head(queue)
         jobs == Execute(job)
     IN \E published \in 0..Len(jobs) :
          /\ Len(queue) - 1 + published <= MaxQueue
          /\ queue' = Tail(queue) \o SubSeq(jobs, 1, published)
          /\ response' = [op |-> job.task,
                          result |-> IF published < Len(jobs)
                                       THEN "OperationalError" ELSE "Done",
                          publish_failed |-> published < Len(jobs)]
  /\ UNCHANGED <<db, order_seq, reqs, cron, ops, cache, config>>

(* ---------------------------- environment ----------------------------- *)

ClockStep == UnpaidCutoffHours + 1

Older(age) ==
  IF age + ClockStep <= MaxTicks * ClockStep THEN age + ClockStep ELSE age

\* Time passes: every order gets older by more than the cutoff.
Tick ==
  /\ \E o \in DOMAIN orders : Older(orders[o].age) # orders[o].age
  /\ orders' = [o \in DOMAIN orders |-> [orders[o] EXCEPT !.age = Older(@)]]
  /\ response' = NoResponse
  /\ UNCHANGED <<products, order_items, cart, order_seq, queue, reqs, cron, ops,
                 cache, config>>

\* add_to_cart puts a cart row for an existing product.
AddToCart(u, p) ==
  /\ ops < MaxOps
  /\ p \in DOMAIN products
  /\ p \notin cart[u]
  /\ ops' = ops + 1
  /\ cart' = [cart EXCEPT ![u] = @ \cup {p}]
  /\ response' = [op |-> "add_to_cart", result |-> "Added",
                  publish_failed |-> FALSE]
  /\ UNCHANGED <<products, orders, order_items, order_seq, queue, reqs, cron,
                 cache, config>>

\* Rows that reference a product: the foreign keys of cart_items and
\* order_items are NOT NULL and the relationships do not cascade.
Referenced(p) ==
  \/ \E u \in DOMAIN cart : p \in cart[u]
  \/ \E o \in DOMAIN order_items : p \in LineProducts(order_items[o])

\* delete_product removes a product no row refers to, and then its key
\* from the cache.
DeleteProduct(p) ==
  /\ ops < MaxOps
  /\ p \in DOMAIN products
  /\ ~Referenced(p)
  /\ ops' = ops + 1
  /\ products' = [q \in DOMAIN products \ {p} |-> products[q]]
  /\ cache' = RedisDelete(p)
  /\ response' = [op |-> "delete_product", result |-> "Deleted",
                  publish_failed |-> FALSE]
  /\ UNCHANGED <<orders, order_items, cart, order_seq, queue, reqs, cron,
                 config>>

(* --------------------------- specification ---------------------------- *)

Next ==
  \/ \E s \in Slots, u \in {1, 4}, lines \in OrderLines :
       CreateOrder_check(s, u, lines)
  \/ \E s \in Slots : CreateOrder_write(s)
  \/ \E s \in Slots : CreateOrder_commit(s)
  \/ \E s \in Slots, u \in {1, 2}, oid \in 1..MaxOrders :
       CancelOrder_read(s, u, oid)
  \/ \E s \in Slots : CancelOrder_restore(s)
  \/ \E s \in Slots : CancelOrder_commit(s)
  \/ \E s \in Slots, u \in {1, 2, 3, 5}, oid \in 1..MaxOrders,
        new_status \in OrderStatus :
       UpdateOrderStatus_read(s, u, oid, new_status)
  \/ \E s \in Slots : UpdateOrderStatus_commit(s)
  \/ \E s \in Slots, oid \in 1..MaxOrders, st \in WebhookStatus :
       PaymentWebhook_read(s, oid, st)
  \/ \E s \in Slots : PaymentWebhook_commit(s)
  \/ CancelUnpaidOrders_query
  \/ CancelUnpaidOrders_loop
  \/ CancelUnpaidOrders_commit
  \/ Worker
  \/ Tick
  \/ AddToCart(1, 1)
  \/ \E p \in ProductIds : DeleteProduct(p)

Spec == Init /\ [][Next]_vars

(* ------------------------------ pricing ------------------------------- *)

(***************************************************************************)
(* The prices of create_order, under the specification SpecPricing.  The   *)
(* same tables are looked at through their price columns: a row of         *)
(* products is [base_price, discount_price], a row of orders is its        *)
(* amounts, a row of order_items is the list of priced items.  Amounts     *)
(* are Python floats in the code; here they are whole numbers of a unit    *)
(* in which every price is a multiple of ten, so that the tenth taken as   *)
(* tax is exact.  A discount_price of 0 stands for None (both are falsy,   *)
(* and Field(gt=0) keeps 0.0 itself out of the table).                     *)
(***************************************************************************)

Prices == {10, 20}

DiscountPrices == {0} \cup Prices

DiscountCodes == {"", "SAVE10"}

PricedLines ==
  { <<Line(1, 1)>>, <<Line(1, 2), Line(1, 1)>>, <<Line(1, 1), Line(2, 3)>> }

\* ProductUpdate with exclude_unset: any subset of the two price fields.
UpdateInputs ==
  UNION { [F -> DiscountPrices] : F \in SUBSET {"base_price", "discount_price"} }

InitPricing ==
  /\ products = <<>>
  /\ orders = <<>>
  /\ order_items = <<>>
  /\ cart = [u \in DOMAIN User |-> {}]
  /\ order_seq = 0
  /\ queue = <<>>
  /\ reqs = [s \in Slots |-> Idle]
  /\ cron = CronIdle
  /\ ops = 0
  /\ response = NoResponse
  /\ cache = <<>>
  /\ config = ProductionConfig

Answer(op, result) == [op |-> op, result |-> result, publish_failed |-> FALSE]

\* The validator of ProductCreate: a discount price that is given must be
\* below the base price.
DiscountLessThanBase(base, discount) == ~(discount # 0 /\ discount >= base)

\* create_product: the schema is validated, then the row is inserted.
CreateProduct(base, discount) ==
  LET p == Cardinality(DOMAIN products) + 1
  IN /\ ops < MaxOps
     /\ p \in ProductIds
     /\ ops' = ops + 1
     /\ IF DiscountLessThanBase(base, discount)
          THEN /\ products' = (p :> [base_price |-> base,
                                     discount_price |-> discount]) @@ products
               /\ response' = Answer("create_product", "Created")
          ELSE /\ UNCHANGED products
               /\ response' = Answer("create_product", "ValidationError")
     /\ UNCHANGED <<orders, order_items, cart, order_seq, queue, reqs, cron,
                    cache, config>>

\* update_product: every field that was sent is assigned, with no check of
\* one price against the other.  A base_price of null passes the schema and
\* fails the NOT NULL column at the commit.  After the commit the key
\* product:{p} is deleted from the cache; the two are one step here, which
\* loses no outcome: whatever is written to the cache between them is
\* deleted.
UpdateProduct(p, data) ==
  /\ ops < MaxOps
  /\ p \in DOMAIN products
  /\ ops' = ops + 1
  /\ IF "base_price" \in DOMAIN data /\ data["base_price"] = 0
       THEN /\ UNCHANGED <<products, cache>>
            /\ response' = Answer("update_product", "IntegrityError")
       ELSE /\ products' = [products EXCEPT ![p] =
                              [f \in DOMAIN @ |->
                                 IF f \in DOMAIN data THEN data[f] ELSE @[f]]]
            /\ cache' = RedisDelete(p)
            /\ response' = Answer("update_product", "Updated")
  /\ UNCHANGED <<orders, order_items, cart, order_seq, queue, reqs, cron,
                 config>>

\* unit_price = product.discount_price or product.base_price
UnitPrice(product) ==
  IF product.discount_price # 0 THEN product.discount_price
  ELSE product.base_price

\* The dictionaries collected by the first loop.
RECURSIVE PricedItems(_)
PricedItems(lines) ==
  IF lines = <<>> THEN <<>>
  ELSE LET item == Head(lines)
           unit_price == UnitPrice(products[item.product_id])
       IN <<[product_id |-> item.product_id,
             quantity |-> item.quantity,
             unit_price |-> unit_price,
             total_price |-> unit_price * item.quantity]>>
            \o PricedItems(Tail(lines))

\* subtotal = total_price in place of subtotal += total_price.
Subtotal_LastItem(items) ==
  IF items = <<>> THEN 0 ELSE items[Len(items)].total_price

\* subtotal += total_price, item by item.
RECURSIVE Subtotal(_)
Subtotal(items) ==
  IF items = <<>> THEN 0
  ELSE Head(items).total_price + Subtotal(Tail(items))

\* A discount code that takes a tenth off.
DiscountAmount_TenPercent(discount_code, subtotal) ==
  IF discount_code # "" THEN subtotal \div 10 ELSE 0

\* if order_data.discount_code: pass
DiscountAmount(discount_code, subtotal) == 0

ShippingCost == 0

\* tax_amount = subtotal * 0.1
TaxAmount(subtotal) == subtotal \div 10

PricedOrder(items, discount_code) ==
  LET subtotal == Subtotal(items)
      discount_amount == DiscountAmount(discount_code, subtotal)
      shipping_cost == ShippingCost
      tax_amount == TaxAmount(subtotal)
  IN [subtotal |-> subtotal,
      discount_amount |-> discount_amount,
      shipping_cost |-> shipping_cost,
      tax_amount |-> tax_amount,
      total |-> subtotal - discount_amount + shipping_cost + tax_amount,
      discount_code |-> discount_code]

\* create_order as far as the amounts go: the items are priced from the
\* products read in the first loop and the order is stored with them.
CreateOrder_price(lines, discount_code) ==
  /\ ops < MaxOps
  /\ order_seq < MaxOrders
  /\ ops' = ops + 1
  /\ IF LineProducts(lines) \subseteq DOMAIN products
       THEN /\ order_seq' = order_seq + 1
            /\ orders' = (order_seq + 1 :> PricedOrder(PricedItems(lines),
                                                       discount_code)) @@ orders
            /\ order_items' = (order_seq + 1 :> PricedItems(lines)) @@ order_items
            /\ response' = Answer("create_order", "Created")
       ELSE /\ UNCHANGED <<orders, order_items, order_seq>>
            /\ response' = Answer("create_order", "ProductNotFound")
  /\ UNCHANGED <<products, cart, queue, reqs, cron, cache, config>>

NextPricing ==
  \/ \E base \in Prices, discount \in DiscountPrices :
       CreateProduct(base, discount)
  \/ \E p \in ProductIds, data \in UpdateInputs : UpdateProduct(p, data)
  \/ \E lines \in PricedLines, discount_code \in DiscountCodes :
       CreateOrder_price(lines, discount_code)

SpecPricing == InitPricing /\ [][NextPricing]_vars

(* --------------------------- placed orders ---------------------------- *)

(***************************************************************************)
(* The status operations on an order that is already placed, under the    *)
(* specification SpecStatus: customer 1 ordered the one unit of product 1 *)
(* (so the cart of customer 1 is empty, the stock is 0 and one sale is    *)
(* counted), process_new_order has run, and the order is either still     *)
(* pending or already confirmed and paid by a 'success' webhook.          *)
(***************************************************************************)

PlacedStates ==
  { [status |-> "pending", payment_status |-> "pending"],
    [status |-> "confirmed", payment_status |-> "paid"] }

InitStatus ==
  /\ products = (1 :> [Product(TRUE, 0) EXCEPT !.sales_count = 1])
                  @@ (2 :> Product(FALSE, 0))
  /\ \E placed \in PlacedStates :
       orders = (1 :> [NewOrder([user |-> 1, num |-> 1])
                         EXCEPT !.status = placed.status,
                                !.payment_status = placed.payment_status])
  /\ order_items = (1 :> <<Line(1, 1)>>)
  /\ cart = [u \in DOMAIN User |-> IF u \in CartUsers \ {1} THEN {1} ELSE {}]
  /\ order_seq = 1
  /\ queue = <<>>
  /\ reqs = [s \in Slots |-> Idle]
  /\ cron = CronIdle
  /\ ops = 0
  /\ response = NoResponse
  /\ cache = <<>>
  /\ config = ProductionConfig

NextStatus ==
  \/ \E s \in Slots, u \in {1, 2, 3, 5}, oid \in 1..MaxOrders,
        new_status \in OrderStatus :
       UpdateOrderStatus_read(s, u, oid, new_status)
  \/ \E s \in Slots : UpdateOrderStatus_commit(s)
  \/ \E s \in Slots, oid \in 1..MaxOrders, st \in WebhookStatus :
       PaymentWebhook_read(s, oid, st)
  \/ \E s \in Slots : PaymentWebhook_commit(s)
  \/ Worker

SpecStatus == InitStatus /\ [][NextStatus]_vars

(* ---------------------------- product cache --------------------------- *)

(***************************************************************************)
(* get_product and the cache of product rows, under the specification      *)
(* SpecCache.  The cache holds, per product id, the dictionary stored       *)
(* under the key product:{id}.  A row of products carries here, besides    *)
(* the inventory columns, the views_count that get_product increments and  *)
(* the created_at set at insertion; the products are active.  The fields   *)
(* of ProductResponse that no operation of the model changes (name, slug,  *)
(* prices, ...) are strings, numbers and booleans and are left out.        *)
(***************************************************************************)

\* The fields of ProductResponse and the Python types of their values.
ProductResponse ==
  [stock_quantity |-> "int", views_count |-> "int", sales_count |-> "int",
   created_at |-> "datetime"]

\* ProductResponse.from_orm(product).dict()
ProductDict(row) == [f \in DOMAIN ProductResponse |-> row[f]]

\* A serialisation that writes a datetime as text.
JsonDumps_Default(value) == {value}

\* json.dumps(value): the set holding the text written, empty when it
\* raises; json has no encoding for a datetime.
JsonDumps(value) ==
  IF \E f \in DOMAIN value : ProductResponse[f] = "datetime"
    THEN {}
    ELSE {value}

\* redis_service.set: a failure to serialise is caught and printed, and
\* the key is not written.
RedisSet(p, value) ==
  LET serialized == JsonDumps(value)
  IN IF serialized = {} THEN cache
     ELSE (p :> (CHOOSE v \in serialized : TRUE)) @@ RedisDelete(p)

\* update_product with a new stock_quantity.
StockUpdates == { [f \in {"stock_quantity"} |-> 3] }

CacheLines == { <<Line(1, 1)>>, <<Line(2, 2)>> }

InitCache ==
  /\ products = [p \in DOMAIN InitProducts |->
                   [views_count |-> 0, created_at |-> 0] @@ InitProducts[p]]
  /\ orders = <<>>
  /\ order_items = <<>>
  /\ cart = [u \in DOMAIN User |-> {}]
  /\ order_seq = 0
  /\ queue = <<>>
  /\ reqs = [s \in Slots |-> Idle]
  /\ cron = CronIdle
  /\ ops = 0
  /\ response = NoResponse
  /\ cache = <<>>
  /\ config = ProductionConfig

\* get_product up to the dictionary it is about to cache: a cached value
\* is returned as it is; on a miss the row is read, views_count is
\* incremented and committed, and from_orm reads the refreshed row.
GetProduct_read(s, p) ==
  LET r == [Idle EXCEPT !.op = "get_product"]
      hit == p \in DOMAIN cache
      found == p \in DOMAIN products
      row == [products[p] EXCEPT !.views_count = @ + 1]
      next == IF hit THEN Finish(r, "Cached")
              ELSE IF ~found THEN Finish(r, "NotFound")
              ELSE [r EXCEPT !.sess = (p :> ProductDict(row)), !.pc = "set"]
  IN /\ Free(s)
     /\ ops < MaxOps
     /\ products' = IF ~hit /\ found
                      THEN [products EXCEPT ![p] = row]
                      ELSE products
     /\ Advance(s, next, FALSE)
     /\ Count(next)
     /\ UNCHANGED <<orders, order_items, cart, order_seq, queue, cron,
                    cache, config>>

\* redis_service.set(cache_key, product_dict, expire=3600), and the answer.
GetProduct_set(s) ==
  LET r == reqs[s]
      p == CHOOSE q \in DOMAIN r.sess : TRUE
  IN /\ r.op = "get_product" /\ r.pc = "set"
     /\ cache' = RedisSet(p, r.sess[p])
     /\ Advance(s, Finish(r, "Product"), FALSE)
     /\ UNCHANGED <<db, order_seq, queue, cron, ops, config>>

NextCache ==
  \/ \E s \in Slots, lines \in CacheLines : CreateOrder_check(s, 1, lines)
  \/ \E s \in Slots : CreateOrder_write(s)
  \/ \E s \in Slots : CreateOrder_commit(s)
  \/ \E s \in Slots, oid \in 1..MaxOrders : CancelOrder_read(s, 1, oid)
  \/ \E s \in Slots : CancelOrder_restore(s)
  \/ \E s \in Slots : CancelOrder_commit(s)
  \/ \E s \in Slots, p \in ProductIds : GetProduct_read(s, p)
  \/ \E s \in Slots : GetProduct_set(s)
  \/ \E p \in ProductIds, data \in StockUpdates : UpdateProduct(p, data)
  \/ \E p \in ProductIds : DeleteProduct(p)

SpecCache == InitCache /\ [][NextCache]_vars

(* -------------------------- one call at a time ------------------------ *)

(***************************************************************************)
(* The order operations called one after the other, under the             *)
(* specification SpecSequential: a request or a run of the scheduled task  *)
(* starts only when no other is in progress.                               *)
(***************************************************************************)

Quiet ==
  /\ \A s \in Slots : reqs[s].pc = "idle"
  /\ cron.pc = "idle"

NextSequential ==
  \/ Quiet /\ \E u \in {1, 4}, lines \in OrderLines : CreateOrder_check(1, u, lines)
  \/ CreateOrder_write(1)
  \/ CreateOrder_commit(1)
  \/ Quiet /\ \E u \in {1, 2}, oid \in 1..MaxOrders : CancelOrder_read(1, u, oid)
  \/ CancelOrder_restore(1)
  \/ CancelOrder_commit(1)
  \/ Quiet /\ \E u \in {1, 2, 3, 5}, oid \in 1..MaxOrders,
                 new_status \in OrderStatus :
                UpdateOrderStatus_read(1, u, oid, new_status)
  \/ UpdateOrderStatus_commit(1)
  \/ Quiet /\ \E oid \in 1..MaxOrders, st \in WebhookStatus :
                PaymentWebhook_read(1, oid, st)
  \/ PaymentWebhook_commit(1)
  \/ Quiet /\ CancelUnpaidOrders_query
  \/ CancelUnpaidOrders_loop
  \/ CancelUnpaidOrders_commit
  \/ Tick

SpecSequential == Init /\ [][NextSequential]_vars

(* ---------------------------- task delivery --------------------------- *)

(***************************************************************************)
(* How a published task reaches a worker, under the specification          *)
(* SpecDelivery.  queue holds the broker's messages, reqs the worker       *)
(* processes, config the class get_config chose.  A message is ready or    *)
(* unacked (delivered to one worker and not yet acknowledged).  The tasks  *)
(* are declared with @celery_app.task(name=...) alone, so whether the      *)
(* retry policy of the configuration class applies to a failing task is    *)
(* left open: a failure is retried within the policy or ends the job.      *)
(***************************************************************************)

MaxPublished == 2

DeliveredTasks == {"send_order_confirmation", "notify_shop_owner"}

Message(id, task, oid) ==
  [id |-> id, task |-> task, order_id |-> oid, retries |-> 0, countdown |-> 0,
   state |-> "ready", worker |-> 0, redelivered |-> FALSE]

Ids(q) == { q[i].id : i \in 1..Len(q) }

Without(q, id) == SelectSeq(q, LAMBDA m : m.id # id)

InitDelivery ==
  /\ products = InitProducts
  /\ orders = <<>>
  /\ order_items = <<>>
  /\ cart = [u \in CartUsers |-> {}]
  /\ order_seq = 0
  /\ queue = <<>>
  /\ reqs = [s \in Slots |-> Idle]
  /\ cron = CronIdle
  /\ ops = 0
  /\ response = NoResponse
  /\ cache = <<>>
  /\ config \in {DevelopmentConfig, ProductionConfig}

\* task.delay(order_id): with task_always_eager the task runs in the caller
\* and, with task_eager_propagates, what it raises is raised in the caller;
\* otherwise a message goes to the broker.
ApplyAsync(task, oid) ==
  /\ ops < MaxPublished
  /\ ops' = ops + 1
  /\ IF config.task_always_eager
       THEN /\ \E raises \in BOOLEAN :
                 response' = [op |-> "delay",
                              result |-> IF raises /\ config.task_eager_propagates
                                           THEN "Raised" ELSE "EagerResult",
                              publish_failed |-> FALSE]
            /\ UNCHANGED queue
       ELSE /\ Len(queue) < MaxQueue
            /\ queue' = Append(queue, Message(ops + 1, task, oid))
            /\ response' = [op |-> "delay", result |-> "AsyncResult",
                            publish_failed |-> FALSE]
  /\ UNCHANGED <<db, order_seq, reqs, cron, cache, config>>

\* The first ready message is delivered to an idle worker process.  With
\* task_acks_late it stays with the broker, unacked, until the task has
\* run; without, it is acknowledged on receipt.
Reserve_AcksEarly(w) ==
  /\ reqs[w].pc = "idle"
  /\ \E i \in 1..Len(queue) :
       /\ queue[i].state = "ready"
       /\ \A j \in 1..(i - 1) : queue[j].state # "ready"
       /\ queue' = Without(queue, queue[i].id)
       /\ reqs' = [reqs EXCEPT ![w] = [Idle EXCEPT !.op = queue[i].task,
                                                   !.pc = "run",
                                                   !.oid = queue[i].order_id,
                                                   !.num = queue[i].id,
                                                   !.lines = <<queue[i]>>]]
  /\ response' = [op |-> "reserve", result |-> "", publish_failed |-> FALSE]
  /\ UNCHANGED <<db, order_seq, cron, ops, cache, config>>

Reserve(w) ==
  /\ reqs[w].pc = "idle"
  /\ \E i \in 1..Len(queue) :
       /\ queue[i].state = "ready"
       /\ \A j \in 1..(i - 1) : queue[j].state # "ready"
       /\ queue' = IF config.task_acks_late
                     THEN [queue EXCEPT ![i].state = "unacked", ![i].worker = w]
                     ELSE Without(queue, queue[i].id)
       /\ reqs' = [reqs EXCEPT ![w] = [Idle EXCEPT !.op = queue[i].task,
                                                   !.pc = "run",
                                                   !.oid = queue[i].order_id,
                                                   !.num = queue[i].id,
                                                   !.lines = <<queue[i]>>]]
  /\ response' = [op |-> "reserve", result |-> "", publish_failed |-> FALSE]
  /\ UNCHANGED <<db, order_seq, cron, ops, cache, config>>

\* The task returns: the message is acknowledged.
TaskSucceeds(w) ==
  /\ reqs[w].pc = "run"
  /\ queue' = Without(queue, reqs[w].num)
  /\ reqs' = [reqs EXCEPT ![w] = Idle]
  /\ response' = [op |-> reqs[w].op, result |-> "Done", publish_failed |-> FALSE]
  /\ UNCHANGED <<db, order_seq, cron, ops, cache, config>>

\* task_retry_backoff with task_retry_jitter: 2^retries seconds, at most
\* task_retry_backoff_max, and with jitter any delay from 0 to that; the
\* two ends are drawn.
Backoff(retries) ==
  LET full == 2 ^ retries
      countdown == IF full < config.task_retry_backoff_max
                     THEN full ELSE config.task_retry_backoff_max
  IN {0, countdown}

\* The task raises.  Within task_max_retries it may be published again
\* with one more retry and a countdown; otherwise the job ends.  The
\* message that was running is acknowledged in both cases.
TaskFails(w) ==
  /\ reqs[w].pc = "run"
  /\ LET m == reqs[w].lines[1]
     IN \/ /\ m.retries < config.task_max_retries
           /\ \E countdown \in Backoff(m.retries) :
                queue' = Append(Without(queue, m.id),
                                [m EXCEPT !.retries = @ + 1,
                                          !.countdown = countdown,
                                          !.state = "ready",
                                          !.worker = 0,
                                          !.redelivered = FALSE])
           /\ response' = [op |-> reqs[w].op, result |-> "Retry",
                           publish_failed |-> FALSE]
        \/ /\ queue' = Without(queue, m.id)
           /\ response' = [op |-> reqs[w].op, result |-> "Failed",
                           publish_failed |-> FALSE]
  /\ reqs' = [reqs EXCEPT ![w] = Idle]
  /\ UNCHANGED <<db, order_seq, cron, ops, cache, config>>

\* The worker process dies while the task runs.  With task_acks_late and
\* task_reject_on_worker_lost the message is rejected with requeue and is
\* ready again; with task_acks_late alone it is acknowledged; without
\* task_acks_late it was acknowledged on receipt and is gone.
WorkerLost(w) ==
  /\ reqs[w].pc = "run"
  /\ queue' = IF config.task_acks_late /\ config.task_reject_on_worker_lost
                THEN [i \in 1..Len(queue) |->
                        IF queue[i].id = reqs[w].num
                          THEN [queue[i] EXCEPT !.state = "ready",
                                                !.worker = 0,
                                                !.redelivered = TRUE]
                          ELSE queue[i]]
                ELSE Without(queue, reqs[w].num)
  /\ reqs' = [reqs EXCEPT ![w] = Idle]
  /\ response' = [op |-> reqs[w].op, result |-> "WorkerLostError",
                  publish_failed |-> FALSE]
  /\ UNCHANGED <<db, order_seq, cron, ops, cache, config>>

NextDelivery ==
  \/ \E task \in DeliveredTasks : ApplyAsync(task, 1)
  \/ \E w \in Slots : Reserve(w)
  \/ \E w \in Slots : TaskSucceeds(w)
  \/ \E w \in Slots : TaskFails(w)
  \/ \E w \in Slots : WorkerLost(w)

SpecDelivery == InitDelivery /\ [][NextDelivery]_vars

(* ------------------------------ fan-out ------------------------------- *)

(***************************************************************************)
(* Customers fill their carts, one order is placed and the workers run    *)
(* what it publishes, under the specification SpecFanOut.  A worker that   *)
(* is up takes the next job of a queue that holds one: weak fairness of    *)
(* Worker.                                                                 *)
(***************************************************************************)

NextFanOut ==
  \/ /\ order_seq + PendingCreates = 0
     /\ \E s \in Slots, u \in {1, 4}, lines \in OrderLines :
          CreateOrder_check(s, u, lines)
  \/ \E s \in Slots : CreateOrder_write(s)
  \/ \E s \in Slots : CreateOrder_commit(s)
  \/ \E u \in CartUsers, p \in ProductIds : AddToCart(u, p)
  \/ Worker

SpecFanOut == Init /\ [][NextFanOut]_vars /\ WF_vars(Worker)

(* ------------------------------- claims ------------------------------- *)

\* The products named by an item that is short of stock when the request
\* is checked.
Short(lines) ==
  \E i \in DOMAIN lines :
     /\ lines[i].product_id \in DOMAIN products
     /\ products[lines[i].product_id].track_inventory
     /\ products[lines[i].product_id].stock_quantity < lines[i].quantity

RECURSIVE Quantity(_, _)
Quantity(lines, p) ==
  IF lines = <<>> THEN 0
  ELSE (IF Head(lines).product_id = p THEN Head(lines).quantity ELSE 0)
         + Quantity(Tail(lines), p)

\* C1: two concurrent create_order requests, each for the one unit in stock
\* of the inventory-tracked product and with nothing else run: they never
\* both succeed, so the unit is sold once.
C1_OneUnitSoldOnce ==
  ~(/\ ops = 2
    /\ DOMAIN orders = {1, 2}
    /\ \A o \in {1, 2} : order_items[o] = <<Line(1, 1)>>)

\* C2: create_order is all-or-nothing: an order row is committed in the
\* same step as all its item rows, the product columns computed by the
\* request and the cart deletion; order rows and item rows always go
\* together; and a create_order that fails at any step leaves products,
\* orders, order items and carts as they were.
C2_AllOrNothing ==
  [][/\ DOMAIN orders' = DOMAIN order_items'
     /\ \A o \in DOMAIN orders' \ DOMAIN orders :
          \E s \in Slots :
             /\ reqs[s].op = "create_order" /\ reqs[s].oid = o
             /\ order_items'[o] = reqs[s].lines
             /\ \A p \in LineProducts(reqs[s].lines) :
                  /\ p \in DOMAIN products'
                  /\ products'[p].sales_count = reqs[s].sess[p].sales_count
                  /\ products'[p].track_inventory =>
                       products'[p].stock_quantity = reqs[s].sess[p].stock_quantity
             /\ cart'[reqs[s].user] = cart[reqs[s].user] \ reqs[s].cartDel
     /\ (response'.op = "create_order" /\ response'.result # "Created")
          => db' = db
     /\ \A s \in Slots :
          (reqs[s].op = "create_order" /\ reqs'[s] # reqs[s]
             /\ DOMAIN orders' = DOMAIN orders) => db' = db
    ]_vars

\* C2 witness: a create_order failed in its second pass, after the order
\* row had been flushed, while the product was being deleted.
C2_Witness ==
  /\ response.op = "create_order"
  /\ response.result = "AttributeError"
  /\ orders = <<>>

\* C3 as stated: a create_order with some item short of stock is rejected
\* with the insufficient-stock error and changes nothing.
C3_RejectedInsufficientStock ==
  [][\A s \in Slots, u \in {1, 4}, lines \in OrderLines :
       (CreateOrder_check(s, u, lines) /\ Short(lines))
         => /\ response'.op = "create_order"
            /\ response'.result = "InsufficientStock"
            /\ db' = db
    ]_vars

\* No item before the first one short of stock names a missing product.
NoneMissingBeforeShort(lines) ==
  \E i \in DOMAIN lines :
     /\ lines[i].product_id \in DOMAIN products
     /\ products[lines[i].product_id].track_inventory
     /\ products[lines[i].product_id].stock_quantity < lines[i].quantity
     /\ \A j \in 1..(i - 1) : lines[j].product_id \in DOMAIN products

\* C3 amended: a create_order with some item short of stock is always
\* rejected and changes nothing; the error is the insufficient-stock one
\* when the caller has a tenant and no item before the first short one
\* names a missing product (otherwise the tenant or not-found error).
C3_RejectedUnchanged ==
  [][\A s \in Slots, u \in {1, 4}, lines \in OrderLines :
       (CreateOrder_check(s, u, lines) /\ Short(lines))
         => /\ response'.op = "create_order"
            /\ response'.result \in {"NoTenant", "ProductNotFound",
                                     "InsufficientStock"}
            /\ (User[u].tenant_id # 0 /\ NoneMissingBeforeShort(lines))
                 => response'.result = "InsufficientStock"
            /\ db' = db
            /\ queue' = queue /\ order_seq' = order_seq
    ]_vars

\* C3 witness: a request was rejected for insufficient stock while an
\* order exists and the tracked product is sold out.
C3_Witness ==
  /\ response.op = "create_order"
  /\ response.result = "InsufficientStock"
  /\ orders # <<>>

\* C4: the commit of a successful create_order lowers the stock of every
\* tracked product of the order by the ordered quantity, raises its
\* sales_count by the ordered quantity, and leaves the products the order
\* does not name as they were.
C4_CreateAdjustsInventory ==
  [][\A s \in Slots :
       (CreateOrder_commit(s) /\ response'.result = "Created")
         => \A p \in DOMAIN products :
              IF p \in LineProducts(reqs[s].lines)
                THEN products[p].track_inventory =>
                       /\ products'[p].stock_quantity =
                            products[p].stock_quantity - Quantity(reqs[s].lines, p)
                       /\ products'[p].sales_count =
                            products[p].sales_count + Quantity(reqs[s].lines, p)
                ELSE products'[p] = products[p]
    ]_vars

\* C5: when a create_order and the cancel_order of that order are all that
\* ran, every product, tracked or not, has the stock_quantity and
\* sales_count it had before the order.
C5_RoundTrip ==
  (/\ ops = 2
   /\ response.op = "cancel_order"
   /\ response.result = "Cancelled")
     => products = InitProducts

\* C6: a cancel_order for an order that is not the caller's or not pending
\* fails with an error and leaves products, orders and the task queue as
\* they were; a cancel_order that succeeds read its order as the caller's
\* and pending.
C6_CancelOnlyOwnPending ==
  [][/\ \A s \in Slots, u \in {1, 2}, oid \in 1..MaxOrders :
          (/\ CancelOrder_read(s, u, oid)
           /\ ~(/\ oid \in DOMAIN orders
                /\ orders[oid].customer_id = u
                /\ orders[oid].status = "pending"))
            => /\ response'.op = "cancel_order"
               /\ response'.result \in {"NotFound", "CannotCancel"}
               /\ db' = db
               /\ queue' = queue
     /\ (response'.op = "cancel_order" /\ response'.result = "Cancelled")
          => \E s \in Slots :
                /\ reqs[s].op = "cancel_order" /\ reqs'[s] # reqs[s]
                /\ reqs[s].seen = "pending"
                /\ orders[reqs[s].oid].customer_id = reqs[s].user
                /\ orders'[reqs[s].oid].status = "cancelled"
    ]_vars

\* C6 witness: a cancel_order was refused while every order is confirmed.
C6_Witness ==
  /\ response.op = "cancel_order"
  /\ response.result = "CannotCancel"
  /\ orders # <<>>
  /\ \A o \in DOMAIN orders : orders[o].status = "confirmed"

\* The moves the lifecycle permits: forward along pending, confirmed,
\* processing, shipped, delivered, refunded, and from pending to cancelled.
Rank(status) ==
  CASE status = "pending" -> 0
    [] status = "confirmed" -> 1
    [] status = "processing" -> 2
    [] status = "shipped" -> 3
    [] status = "delivered" -> 4
    [] status = "refunded" -> 5
    [] status = "cancelled" -> 6

Permitted(old, new) ==
  \/ new = old
  \/ old # "cancelled" /\ new # "cancelled" /\ Rank(old) < Rank(new)
  \/ old = "pending" /\ new = "cancelled"

\* C7: no step moves an order's status backward in the lifecycle, and a
\* cancelled order stays cancelled.
C7_StatusMonotonic ==
  [][\A o \in DOMAIN orders : Permitted(orders[o].status, orders'[o].status)]_vars

Selected(c) == { c.todo[i] : i \in DOMAIN c.todo } \cup c.marked

\* C8: a run of cancel_unpaid_orders selects exactly the orders that are
\* pending, with payment_status pending and older than the cutoff, and
\* when it ends those orders are cancelled and every other order has the
\* status and payment_status it had.
C8_CancelsExactlyUnpaid ==
  [][/\ CancelUnpaidOrders_query
          => Selected(cron') = { o \in DOMAIN orders :
                                   /\ orders[o].status = "pending"
                                   /\ orders[o].payment_status = "pending"
                                   /\ orders[o].age > UnpaidCutoffHours }
     /\ (cron.pc = "loop" /\ cron'.pc = "idle")
          => \A o \in DOMAIN orders :
                IF o \in Selected(cron)
                  THEN orders'[o].status = "cancelled"
                  ELSE orders'[o] = orders[o]
    ]_vars

RECURSIVE RestoreOrders(_, _)
RestoreOrders(prods, cancelled) ==
  IF cancelled = {} THEN prods
  ELSE LET o == CHOOSE x \in cancelled : TRUE
       IN RestoreOrders(RestoreLines(prods, order_items[o]), cancelled \ {o})

\* C9: the commit of a cancel_unpaid_orders run gives back the inventory of
\* every order it cancels, as cancel_order does: the stock_quantity of each
\* tracked product rises and its sales_count falls by the item quantity.
C9_CronRestoresInventory ==
  [][(cron.pc = "loop" /\ cron'.pc = "idle" /\ response'.result = "Done")
       => products' = RestoreOrders(products, cron.marked)]_vars

\* C10: when the publish of process_new_order fails, create_order still
\* answers with the created order: the order, its items, the product
\* columns and the cart deletion are committed in that step, and nothing
\* is on the queue for it.
C10_CreatedDespiteBroker ==
  [][\A s \in Slots :
       (/\ reqs[s].op = "create_order" /\ reqs[s].pc = "commit"
        /\ reqs'[s] # reqs[s]
        /\ response'.publish_failed)
         => /\ response'.op = "create_order"
            /\ response'.result = "Created"
            /\ reqs[s].oid \in DOMAIN orders'
            /\ orders'[reqs[s].oid].status = "pending"
            /\ order_items'[reqs[s].oid] = reqs[s].lines
            /\ \A p \in LineProducts(reqs[s].lines) :
                 /\ products'[p].sales_count = reqs[s].sess[p].sales_count
                 /\ products'[p].track_inventory =>
                      products'[p].stock_quantity = reqs[s].sess[p].stock_quantity
            /\ cart'[reqs[s].user] = cart[reqs[s].user] \ reqs[s].cartDel
            /\ queue' = queue
    ]_vars

\* C10 witness: a create_order answered "Created" in a step whose publish
\* failed; the order is committed, the stock is taken, the cart is empty
\* and the queue holds nothing.
C10_Witness ==
  /\ response.op = "create_order"
  /\ response.result = "Created"
  /\ response.publish_failed
  /\ DOMAIN orders = {1}
  /\ order_items[1] = <<Line(1, 1)>>
  /\ products[1].stock_quantity = 0
  /\ cart[1] = {}
  /\ queue = <<>>

\* The request of slot s commits in this step.
Commits(s, op) ==
  /\ reqs[s].op = op /\ reqs[s].pc = "commit"
  /\ reqs'[s] # reqs[s]

\* C11: in every producer a publish that fails is caught: the operation
\* still ends with its normal answer, and its primary change (the new
\* order, the status it sets where that differs from the one it read, the
\* cancellation of the selected orders) is committed in that step.
C11_EnqueueFailureCaught ==
  [][/\ \A s \in Slots :
          (Commits(s, "create_order") /\ response'.publish_failed)
            => /\ response'.result = "Created"
               /\ reqs[s].oid \in DOMAIN orders'
     /\ \A s \in Slots :
          (Commits(s, "cancel_order") /\ response'.publish_failed)
            => /\ response'.result = "Cancelled"
               /\ orders'[reqs[s].oid].status = "cancelled"
     /\ \A s \in Slots :
          (Commits(s, "update_order_status") /\ response'.publish_failed)
            => /\ response'.result = "Updated"
               /\ reqs[s].arg # reqs[s].seen
                    => orders'[reqs[s].oid].status = reqs[s].arg
     /\ \A s \in Slots :
          (Commits(s, "payment_webhook") /\ response'.publish_failed)
            => /\ response'.result = "Processed"
               /\ reqs[s].seen # "confirmed"
                    => orders'[reqs[s].oid].status = "confirmed"
               /\ reqs[s].seenPay # "paid"
                    => orders'[reqs[s].oid].payment_status = "paid"
     /\ (response'.op = "cancel_unpaid_orders" /\ response'.publish_failed)
          => /\ response'.result = "Done"
             /\ \A o \in Selected(cron) : orders'[o].status = "cancelled"
    ]_vars

\* C12: under SpecPricing, every order created has total = subtotal -
\* discount_amount + shipping_cost + tax_amount, with tax_amount a tenth
\* of the subtotal and shipping_cost and discount_amount 0, with or without
\* a discount code.
C12_TotalFormula ==
  \A o \in DOMAIN orders :
     /\ orders[o].total = orders[o].subtotal - orders[o].discount_amount
                            + orders[o].shipping_cost + orders[o].tax_amount
     /\ orders[o].tax_amount * 10 = orders[o].subtotal
     /\ orders[o].shipping_cost = 0
     /\ orders[o].discount_amount = 0

\* C12 witness: an order created with a discount code and two items.
C12_Witness ==
  \E o \in DOMAIN orders :
     /\ orders[o].discount_code = "SAVE10"
     /\ Len(order_items[o]) = 2
     /\ orders[o].total > orders[o].subtotal

RECURSIVE SumTotalPrice(_, _)
SumTotalPrice(items, n) ==
  IF n = 0 THEN 0 ELSE SumTotalPrice(items, n - 1) + items[n].total_price

\* C13: under SpecPricing, every order item has total_price = quantity *
\* unit_price with quantity > 0, and the subtotal of its order is the sum
\* of the total_price of the order's items.
C13_ItemTotals ==
  \A o \in DOMAIN orders :
     /\ \A i \in DOMAIN order_items[o] :
          /\ order_items[o][i].quantity > 0
          /\ order_items[o][i].total_price =
               order_items[o][i].quantity * order_items[o][i].unit_price
     /\ orders[o].subtotal = SumTotalPrice(order_items[o], Len(order_items[o]))

\* C13 witness: an order that names the same product in two items of
\* different quantity.
C13_Witness ==
  \E o \in DOMAIN orders :
     /\ Len(order_items[o]) = 2
     /\ order_items[o][1].product_id = order_items[o][2].product_id
     /\ order_items[o][1].total_price # order_items[o][2].total_price

\* C14: under SpecPricing, the unit price recorded for an item is the
\* product's discount price when one is present and lower than the base
\* price, and the base price otherwise.
C14_UnitPriceSelection ==
  [][\A o \in DOMAIN order_items' \ DOMAIN order_items :
       \A i \in DOMAIN order_items'[o] :
          LET product == products[order_items'[o][i].product_id]
          IN order_items'[o][i].unit_price =
               IF product.discount_price # 0
                    /\ product.discount_price < product.base_price
                 THEN product.discount_price
                 ELSE product.base_price
    ]_vars

\* C15: a create_order that succeeds leaves its customer without cart
\* items and the carts of the other customers as they were, in the step
\* that commits the order; a create_order that fails leaves every cart as
\* it was.
C15_CartCleared ==
  [][/\ \A s \in Slots :
          (Commits(s, "create_order") /\ response'.result = "Created")
            => /\ cart'[reqs[s].user] = {}
               /\ \A u \in DOMAIN cart \ {reqs[s].user} : cart'[u] = cart[u]
     /\ (response'.op = "create_order" /\ response'.result # "Created")
          => cart' = cart
    ]_vars

\* C16: a create_order that succeeds leaves the stock_quantity and the
\* sales_count of every product with track_inventory false as they were.
C16_UntrackedUnchanged ==
  [][\A s \in Slots :
       (Commits(s, "create_order") /\ response'.result = "Created")
         => \A p \in DOMAIN products :
              ~products[p].track_inventory => products'[p] = products[p]
    ]_vars

\* C17: an update_order_status by an actor who is not a tenant owner, or
\* for an order of another tenant, fails with the forbidden error and
\* leaves orders, products and the task queue as they were; an
\* update_order_status that commits was made by the owner of the order's
\* tenant.
C17_UpdateOnlyByOwner ==
  [][/\ \/ response'.op # "update_order_status"
        \/ /\ response'.result = "Forbidden"
           /\ db' = db
           /\ queue' = queue
        \/ ~ \E s \in Slots, u \in {1, 2, 3, 5}, oid \in 1..MaxOrders,
                new_status \in OrderStatus :
               /\ \/ User[u].role # "tenant_owner"
                  \/ oid \in DOMAIN orders
                       /\ orders[oid].tenant_id # User[u].tenant_id
               /\ UpdateOrderStatus_read(s, u, oid, new_status)
     /\ \A s \in Slots :
          Commits(s, "update_order_status")
            => /\ User[reqs[s].user].role = "tenant_owner"
               /\ orders[reqs[s].oid].tenant_id = User[reqs[s].user].tenant_id
     /\ \A o \in DOMAIN orders :
          (response'.op = "update_order_status" /\ orders'[o] # orders[o])
            => \E s \in Slots :
                  Commits(s, "update_order_status") /\ reqs[s].oid = o
    ]_vars

\* C17 witness: an update_order_status was refused as forbidden while an
\* order exists.
C17_Witness ==
  /\ response.op = "update_order_status"
  /\ response.result = "Forbidden"
  /\ orders # <<>>

\* C18: when an update_order_status succeeds, a send_order_status_update
\* job for its order is on the task queue.  (A publish by this operation
\* is never refused by the broker: the operation does not get as far as a
\* publish.)
C18_StatusUpdateEnqueued ==
  [][\A s \in Slots :
       (Commits(s, "update_order_status") /\ response'.result = "Updated")
         => \E i \in DOMAIN queue' :
               /\ queue'[i].task = "send_order_status_update"
               /\ queue'[i].order_id = reqs[s].oid
    ]_vars

\* C19: an update_order_status to confirmed that succeeds leaves the order
\* with payment_status 'paid' in the step that commits it; an
\* update to any other status that succeeds leaves payment_status as it
\* was.
C19_ConfirmedSetsPaid ==
  [][\A s \in Slots :
       (Commits(s, "update_order_status") /\ response'.result = "Updated")
         => IF reqs[s].arg = "confirmed"
              THEN orders'[reqs[s].oid].payment_status = "paid"
              ELSE orders'[reqs[s].oid].payment_status
                     = orders[reqs[s].oid].payment_status
    ]_vars

\* C20: a payment webhook with status 'success' leaves the order confirmed
\* and paid in the step that commits it and, when the broker takes the
\* publishes, adds one send_order_confirmation and one notify_shop_owner
\* job for the order to the queue; with status 'failed' it leaves
\* payment_status 'failed', the order status as it was and the queue as it
\* was; with any other status value (or for an order that does not exist)
\* it changes nothing.
C20_WebhookEffects ==
  [][/\ \A s \in Slots :
          Commits(s, "payment_webhook")
            => LET oid == reqs[s].oid
               IN IF reqs[s].arg = "success"
                    THEN /\ orders'[oid].status = "confirmed"
                         /\ orders'[oid].payment_status = "paid"
                         /\ ~response'.publish_failed
                              => queue' = queue \o
                                   <<Job("send_order_confirmation", oid),
                                     Job("notify_shop_owner", oid)>>
                    ELSE /\ orders'[oid].payment_status = "failed"
                         /\ orders'[oid].status = orders[oid].status
                         /\ queue' = queue
     /\ (/\ response'.op = "payment_webhook"
         /\ \A s \in Slots : ~Commits(s, "payment_webhook"))
          => db' = db /\ queue' = queue
    ]_vars

\* C21: a 'success' webhook delivered for an order that an earlier
\* delivery left confirmed and paid leaves the order as it is and, when
\* the broker takes the publishes, adds one more send_order_confirmation
\* and one more notify_shop_owner job for the order to the queue.
C21_WebhookNotIdempotent ==
  [][\A s \in Slots :
       (/\ Commits(s, "payment_webhook")
        /\ reqs[s].arg = "success"
        /\ reqs[s].seen = "confirmed" /\ reqs[s].seenPay = "paid"
        /\ orders[reqs[s].oid].status = "confirmed"
        /\ orders[reqs[s].oid].payment_status = "paid"
        /\ ~response'.publish_failed)
         => /\ orders' = orders
            /\ queue' = queue \o <<Job("send_order_confirmation", reqs[s].oid),
                                   Job("notify_shop_owner", reqs[s].oid)>>
    ]_vars

\* C21 witness: a 'success' webhook has just been processed and its two
\* jobs are on the queue, and the only other request made, still in
\* flight, read the order as confirmed and paid before that: the webhook
\* was a repeated delivery.
C21_Witness ==
  /\ ops = 2
  /\ response = [op |-> "payment_webhook", result |-> "Processed",
                 publish_failed |-> FALSE]
  /\ orders[1].status = "confirmed" /\ orders[1].payment_status = "paid"
  /\ queue = <<Job("send_order_confirmation", 1), Job("notify_shop_owner", 1)>>
  /\ \E s \in Slots :
       /\ reqs[s].pc = "commit"
       /\ reqs[s].seen = "confirmed" /\ reqs[s].seenPay = "paid"

\* Every entry of the cache c is the dictionary of the committed row.
Fresh(c, rows) ==
  \A p \in DOMAIN c : p \in DOMAIN rows /\ c[p] = ProductDict(rows[p])

C25_NoCollisionFailure ==
  /\ ~(response.op = "create_order" /\ response.result = "IntegrityError")
  /\ \A o1, o2 \in DOMAIN orders :
       o1 # o2 => orders[o1].order_number # orders[o2].order_number

\* The units of product p in the orders 1..n that are not cancelled.
RECURSIVE Held(_, _)
Held(p, n) ==
  IF n = 0 THEN 0
  ELSE Held(p, n - 1)
         + IF n \in DOMAIN orders /\ orders[n].status # "cancelled"
             THEN Quantity(order_items[n], p)
             ELSE 0

\* C27: in every committed state, each inventory-tracked product has
\* stock_quantity plus the units in its orders that are not cancelled
\* equal to its initial stock_quantity, and sales_count equal to its
\* initial sales_count plus those units.
C27_InventoryConserved ==
  \A p \in DOMAIN products :
    products[p].track_inventory
      => /\ products[p].stock_quantity + Held(p, order_seq)
              = InitProducts[p].stock_quantity
         /\ products[p].sales_count
              = InitProducts[p].sales_count + Held(p, order_seq)

\* C28: with the operations called one at a time, the stock_quantity of
\* every inventory-tracked product stays at or above 0.
C28_StockNonNegative ==
  \A p \in DOMAIN products :
    products[p].track_inventory => products[p].stock_quantity >= 0

\* C29: with one order placed, whenever a cancel_order of it commits, be
\* it the first or a concurrent second one, every inventory-tracked
\* product of the order has the stock_quantity and the sales_count it had
\* before the order: the units are given back once.
C29_RestoredOnce ==
  [][\A s \in Slots :
       (Commits(s, "cancel_order") /\ order_seq = 1)
         => \A p \in LineProducts(order_items[reqs[s].oid]) :
              products[p].track_inventory
                => /\ products'[p].stock_quantity
                        = InitProducts[p].stock_quantity
                   /\ products'[p].sales_count = InitProducts[p].sales_count
    ]_vars

\* C22: delivery is at-least-once with late acknowledgment: a message
\* leaves the queue only in the step in which the worker it was delivered
\* to finishes running it; when a worker process is lost while running a
\* job, the job is on the queue again, ready and marked redelivered; and
\* no two workers run the same delivery at once.
C22_LateAck ==
  [][/\ \A i \in 1..Len(queue) :
          queue[i].id \notin Ids(queue')
            => /\ queue[i].state = "unacked"
               /\ queue[i].worker \in Slots
               /\ reqs[queue[i].worker].pc = "run"
               /\ reqs[queue[i].worker].num = queue[i].id
               /\ reqs'[queue[i].worker].pc = "idle"
               /\ response'.result \in {"Done", "Failed"}
     /\ \A w \in Slots :
          (reqs[w].pc = "run" /\ reqs'[w].pc = "idle"
             /\ response'.result = "WorkerLostError")
            => \E i \in 1..Len(queue') :
                 /\ queue'[i].id = reqs[w].num
                 /\ queue'[i].state = "ready"
                 /\ queue'[i].redelivered
     /\ \A w1, w2 \in Slots :
          (reqs'[w1].pc = "run" /\ reqs'[w2].pc = "run"
             /\ reqs'[w1].num = reqs'[w2].num) => w1 = w2
     /\ \A i \in 1..Len(queue') :
          queue'[i].state = "unacked"
            => /\ reqs'[queue'[i].worker].pc = "run"
               /\ reqs'[queue'[i].worker].num = queue'[i].id
    ]_vars

\* A job that came back after its worker was lost is running again, on
\* the other worker process, while a second job waits.
C22_Witness ==
  /\ reqs[2].pc = "run"
  /\ reqs[2].lines[1].redelivered
  /\ reqs[1].pc = "idle"
  /\ Len(queue) = 2
  /\ response.op = "reserve"

\* C23: a message never carries more retries than task_max_retries nor a
\* countdown above task_retry_backoff_max; a job that failed for good is
\* off the queue and no job comes onto the queue except a newly published
\* one; and no call of delay raises the task's failure in its caller.
C23_RetriesBoundedAndContained ==
  [][/\ \A i \in 1..Len(queue') :
          /\ queue'[i].retries <= config.task_max_retries
          /\ queue'[i].countdown <= config.task_retry_backoff_max
     /\ \A w \in Slots :
          (reqs[w].pc = "run" /\ reqs'[w].pc = "idle"
             /\ response'.result = "Failed")
            => reqs[w].num \notin Ids(queue')
     /\ \A i \in 1..Len(queue') :
          queue'[i].id \notin Ids(queue)
            => /\ response'.op = "delay"
               /\ queue'[i].id = ops'
               /\ ops' = ops + 1
     /\ ~(response'.op = "delay" /\ response'.result = "Raised")
    ]_vars

\* C26: if the broker is reachable (no publish fails) and workers keep
\* taking jobs, then once create_order has answered Created with its job
\* published, process_new_order is eventually run for the order, and so
\* are send_order_confirmation and notify_shop_owner.
C26_FanOutEventually ==
  [](~response.publish_failed)
    => /\ (order_seq = 1 /\ response.op = "create_order"
             /\ response.result = "Created")
            ~> (response.op = "process_new_order")
       /\ (order_seq = 1 /\ response.op = "create_order"
             /\ response.result = "Created")
            ~> (response.op = "send_order_confirmation")
       /\ (order_seq = 1 /\ response.op = "create_order"
             /\ response.result = "Created")
            ~> (response.op = "notify_shop_owner")

\* The last job of the fan-out has run: the order is there, the worker
\* has just run notify_shop_owner and the queue is empty again.
C26_Witness ==
  /\ order_seq = 1
  /\ response.op = "notify_shop_owner"
  /\ response.result = "Done"
  /\ queue = <<>>

====
